---- MODULE Spec2Model ----
(***************************************************************************)
(* GidToLidChangeHandler (searchcore/proton/reference): the handler that   *)
(* reconciles put / remove completions for a GID that arrive out of serial *)
(* order, fans them out to the registered listeners, and owns the listener *)
(* registry.  Every handler below runs under the handler's single lock, so *)
(* each is one atomic step.  A failed assert ends the process: the state   *)
(* is kept as it was when the assert fired and no further call is made.    *)
(***************************************************************************)
EXTENDS Naturals, Integers, Sequences, FiniteSets

\* ---------------------------------------------------------------- bounds
MaxSerial == 3
MaxCalls == 4

\* ---------------------------------------------------------------- inputs
GIDs == {"g1", "g2"}
LIDs == {7}
Serials == 1 .. MaxSerial
DocTypes == {"typeA", "typeB"}
Names == {"keep", "other"}
KeepSets == {{}, {"keep"}}
\* Listener objects handed to addListener; a1 and a1dup carry the same key.
Handles == {"a1", "a1dup", "a2", "b1"}

getDocTypeName(l) == IF l = "b1" THEN "typeB" ELSE "typeA"
getName(l) == IF l = "a2" THEN "other" ELSE "keep"

VARIABLES
    pendingRemove,  \* _pendingRemove: partial map GID -> PendingRemoveEntry
    listeners,      \* _listeners: sequence of owned listener handles
    closed,         \* _closed
    destroyed,      \* listener handles whose unique_ptr has been destroyed
    aborted,        \* an assert has failed: the process is gone
    received,       \* history: per listener, the callbacks it has received
    hist,           \* history: per GID, what the callers have done so far
    lastCall,       \* history: the most recent call, with the state before it
    ncalls,         \* number of calls made (bounds the run)
    destructed,     \* ~GidToLidChangeHandler() has run to its end
    lock,           \* _lock: the thread holding it, or NoThread
    th,             \* per thread: where it is in the call it is making
    running         \* the listener callbacks executing now: <<thread, listener>>

vars == <<pendingRemove, listeners, closed, destroyed, aborted, received, hist,
          lastCall, ncalls, destructed, lock, th, running>>

\* What the calls made one at a time (Spec) leave alone.
tvars == <<lock, th, running>>
rest == <<destructed, lock, th, running>>

Threads == {"t1", "t2"}
NoThread == "-"
Idle == [pc |-> "idle", op |-> "-", serial |-> 0, todo |-> <<>>, write |-> <<>>,
         deferred |-> <<>>, enteredClosed |-> FALSE]

\* ---------------------------------------------------------------- helpers
Max(a, b) == IF a > b THEN a ELSE b

Range(s) == {s[i] : i \in 1 .. Len(s)}

RECURSIVE SelectSeqBy(_, _)
\* the subsequence of s whose elements are in set keepSet (order preserved)
SelectSeqBy(s, keepSet) ==
    IF s = <<>> THEN <<>>
    ELSE IF Head(s) \in keepSet
         THEN <<Head(s)>> \o SelectSeqBy(Tail(s), keepSet)
         ELSE SelectSeqBy(Tail(s), keepSet)

\* An absent entry, as recorded in lastCall when find() returned end().
NoEntry == [removeSerialNum |-> 0, putSerialNum |-> 0, refCount |-> 0]

\* PendingRemoveEntry(serialNum): removeSerialNum(serialNum), putSerialNum
\* unset (below every valid serial number), refCount(1).
PendingRemoveEntry(serialNum) ==
    [removeSerialNum |-> serialNum, putSerialNum |-> 0, refCount |-> 1]

HasEntry(gid) == gid \in DOMAIN pendingRemove

EntryOf(gid) == IF HasEntry(gid) THEN pendingRemove[gid] ELSE NoEntry

MapPut(m, gid, entry) ==
    [g \in DOMAIN m \cup {gid} |-> IF g = gid THEN entry ELSE m[g]]

MapErase(m, gid) == [g \in DOMAIN m \ {gid} |-> m[g]]

\* ------------------------------------------------- unlocked fan-out helpers
\* (mutation) the loop stops after the first listener
notifyPutDoneFanOut_FirstOnly(ls, gid, lid) ==
    IF ls = <<>> THEN <<>>
    ELSE <<[listener |-> ls[1], kind |-> "put", gid |-> gid, lid |-> lid]>>

\* notifyPutDone(gid, lid): one put callback per listener, in registry order.
notifyPutDoneFanOut(ls, gid, lid) ==
    [i \in 1 .. Len(ls) |-> [listener |-> ls[i], kind |-> "put", gid |-> gid, lid |-> lid]]

\* notifyRemove(gid): one remove callback per listener, in registry order.
notifyRemoveFanOut(ls, gid) ==
    [i \in 1 .. Len(ls) |-> [listener |-> ls[i], kind |-> "remove", gid |-> gid, lid |-> 0]]

RECURSIVE Deliver(_, _, _)
\* Append to the listeners' histories the callbacks of `deliveries`, in order
\* (serialNum: the serial number of the operation that caused them).
Deliver(rcv, deliveries, serialNum) ==
    IF deliveries = <<>> THEN rcv
    ELSE LET d == Head(deliveries)
             got == [kind |-> d.kind, gid |-> d.gid, serial |-> serialNum]
         IN Deliver([rcv EXCEPT ![d.listener] = Append(@, got)],
                    Tail(deliveries), serialNum)

\* ------------------------------------------- decisions taken on an entry
\* (mutation) the put is not suppressed behind a later remove
PutDoneOnEntry_NoSuppress(entry, serialNum) ==
    IF ~(entry.removeSerialNum # serialNum)
    THEN [abort |-> TRUE, deliver |-> FALSE, entry |-> entry]
    ELSE IF ~(entry.putSerialNum < serialNum)
    THEN [abort |-> TRUE, deliver |-> FALSE, entry |-> entry]
    ELSE [abort |-> FALSE, deliver |-> TRUE,
          entry |-> [entry EXCEPT !.putSerialNum = serialNum]]

\* (mutation) the delivered put is not recorded in putSerialNum
PutDoneOnEntry_NoRecord(entry, serialNum) ==
    IF ~(entry.removeSerialNum # serialNum)
    THEN [abort |-> TRUE, deliver |-> FALSE, entry |-> entry]
    ELSE IF entry.removeSerialNum > serialNum
    THEN [abort |-> FALSE, deliver |-> FALSE, entry |-> entry]
    ELSE IF ~(entry.putSerialNum < serialNum)
    THEN [abort |-> TRUE, deliver |-> FALSE, entry |-> entry]
    ELSE [abort |-> FALSE, deliver |-> TRUE, entry |-> entry]

\* (mutation) the assert on a put sharing the remove's serial number is gone
PutDoneOnEntry_NoEqAssert(entry, serialNum) ==
    IF entry.removeSerialNum > serialNum
    THEN [abort |-> FALSE, deliver |-> FALSE, entry |-> entry]
    ELSE IF ~(entry.putSerialNum < serialNum)
    THEN [abort |-> TRUE, deliver |-> FALSE, entry |-> entry]
    ELSE [abort |-> FALSE, deliver |-> TRUE,
          entry |-> [entry EXCEPT !.putSerialNum = serialNum]]

\* notifyPutDone(gid, lid, serialNum) on an existing entry: the two asserts,
\* the suppression of a put behind a later remove, the putSerialNum update.
PutDoneOnEntry(entry, serialNum) ==
    IF ~(entry.removeSerialNum # serialNum)
    THEN [abort |-> TRUE, deliver |-> FALSE, entry |-> entry]
    ELSE IF entry.removeSerialNum > serialNum
    THEN [abort |-> FALSE, deliver |-> FALSE, entry |-> entry]
    ELSE IF ~(entry.putSerialNum < serialNum)
    THEN [abort |-> TRUE, deliver |-> FALSE, entry |-> entry]
    ELSE [abort |-> FALSE, deliver |-> TRUE,
          entry |-> [entry EXCEPT !.putSerialNum = serialNum]]

\* (mutation) every remove on an existing entry is fanned out
RemoveOnEntry_AlwaysNotify(entry, serialNum) ==
    IF ~(entry.removeSerialNum < serialNum) \/ ~(entry.putSerialNum < serialNum)
    THEN [abort |-> TRUE, deliver |-> FALSE, entry |-> entry]
    ELSE [abort |-> FALSE, deliver |-> TRUE,
          entry |-> [entry EXCEPT !.removeSerialNum = serialNum,
                                  !.refCount = @ + 1]]

\* (mutation) the refCount is not incremented
RemoveOnEntry_NoRefCount(entry, serialNum) ==
    IF ~(entry.removeSerialNum < serialNum) \/ ~(entry.putSerialNum < serialNum)
    THEN [abort |-> TRUE, deliver |-> FALSE, entry |-> entry]
    ELSE [abort |-> FALSE,
          deliver |-> entry.removeSerialNum < entry.putSerialNum,
          entry |-> [entry EXCEPT !.removeSerialNum = serialNum]]

\* (mutation) removeSerialNum is not updated
RemoveOnEntry_NoSerial(entry, serialNum) ==
    IF ~(entry.removeSerialNum < serialNum) \/ ~(entry.putSerialNum < serialNum)
    THEN [abort |-> TRUE, deliver |-> FALSE, entry |-> entry]
    ELSE [abort |-> FALSE,
          deliver |-> entry.removeSerialNum < entry.putSerialNum,
          entry |-> [entry EXCEPT !.refCount = @ + 1]]

\* (mutation) the asserts come after the fan-out and the update
RemoveOnEntry_LateAssert(entry, serialNum) ==
    [abort |-> ~(entry.removeSerialNum < serialNum) \/ ~(entry.putSerialNum < serialNum),
     deliver |-> entry.removeSerialNum < entry.putSerialNum,
     entry |-> [entry EXCEPT !.removeSerialNum = serialNum,
                             !.refCount = @ + 1]]

\* notifyRemove(gid, serialNum) when insert() found an existing entry.
RemoveOnEntry(entry, serialNum) ==
    IF ~(entry.removeSerialNum < serialNum) \/ ~(entry.putSerialNum < serialNum)
    THEN [abort |-> TRUE, deliver |-> FALSE, entry |-> entry]
    ELSE [abort |-> FALSE,
          deliver |-> entry.removeSerialNum < entry.putSerialNum,
          entry |-> [entry EXCEPT !.removeSerialNum = serialNum,
                                  !.refCount = @ + 1]]

\* (mutation) the last outstanding remove does not erase the entry
RemoveDoneOnEntry_NoErase(found, entry, serialNum) ==
    IF ~found \/ ~(entry.removeSerialNum >= serialNum)
    THEN [abort |-> TRUE, erase |-> FALSE, entry |-> entry]
    ELSE [abort |-> FALSE, erase |-> FALSE,
          entry |-> [entry EXCEPT !.refCount = @ - 1]]

\* (mutation) the serial number must equal removeSerialNum
RemoveDoneOnEntry_ExactSerial(found, entry, serialNum) ==
    IF ~found \/ ~(entry.removeSerialNum = serialNum)
    THEN [abort |-> TRUE, erase |-> FALSE, entry |-> entry]
    ELSE IF entry.refCount = 1
    THEN [abort |-> FALSE, erase |-> TRUE, entry |-> entry]
    ELSE [abort |-> FALSE, erase |-> FALSE,
          entry |-> [entry EXCEPT !.refCount = @ - 1]]

\* notifyRemoveDone(gid, serialNum): found = (itr != end()).  erase: the
\* entry is removed from the map; otherwise its refCount is decremented.
RemoveDoneOnEntry(found, entry, serialNum) ==
    IF ~found \/ ~(entry.removeSerialNum >= serialNum)
    THEN [abort |-> TRUE, erase |-> FALSE, entry |-> entry]
    ELSE IF entry.refCount = 1
    THEN [abort |-> FALSE, erase |-> TRUE, entry |-> entry]
    ELSE [abort |-> FALSE, erase |-> FALSE,
          entry |-> [entry EXCEPT !.refCount = @ - 1]]

\* (mutation) the scan for an old listener only compares the names
HasSameKey_NameOnly(ls, listener) ==
    \E i \in 1 .. Len(ls) : getName(ls[i]) = getName(listener)

\* (mutation) the scan for an old listener never finds one
HasSameKey_Never(ls, listener) == FALSE

\* addListener: an old listener with the same (docTypeName, name) exists.
HasSameKey(ls, listener) ==
    \E i \in 1 .. Len(ls) :
        /\ getDocTypeName(ls[i]) = getDocTypeName(listener)
        /\ getName(ls[i]) = getName(listener)

\* (mutation) the document type is not compared
shouldRemoveListener_AnyDocType(listener, docTypeName, keepNames) ==
    getName(listener) \notin keepNames

shouldRemoveListener(listener, docTypeName, keepNames) ==
    /\ getDocTypeName(listener) = docTypeName
    /\ getName(listener) \notin keepNames

\* ------------------------------------------------------- caller history
NoHist == [removeCalls |-> 0, removeDoneCalls |-> 0, outstanding |-> {},
           maxRemove |-> 0, lifeMaxRemove |-> 0, lastRemove |-> 0,
           maxPut |-> 0, maxDone |-> 0, used |-> {},
           distinct |-> TRUE, matched |-> TRUE,
           regOrder |-> <<>>, lastFanOut |-> "none",
           inOrder |-> TRUE, putSeen |-> FALSE, doneSeen |-> FALSE]

\* regOrder: the outstanding removes in the order they were registered.
\* lastFanOut: the kind of the last fan-out the handler made for the GID.
\* distinct: no two operations on the GID have shared a serial number.
\* matched: every notifyRemoveDone(g, s) completed an outstanding
\* notifyRemove(g, s).  inOrder: see the three operators below.
\* A put completion: in order when its serial number is new for the GID,
\* above every earlier put completion and above every completed remove.
HistPut(h, serialNum, fanned) ==
    [h EXCEPT !.maxPut = Max(@, serialNum),
              !.lastFanOut = IF fanned THEN "put" ELSE @,
              !.used = @ \cup {serialNum},
              !.putSeen = TRUE,
              !.distinct = @ /\ serialNum \notin h.used,
              !.inOrder = /\ @
                          /\ serialNum \notin h.used
                          /\ serialNum > h.maxPut
                          /\ serialNum > h.maxDone]

\* A remove registration: in order when its serial number is above every
\* serial number used on the GID so far.
HistRemove(h, serialNum, created, fanned) ==
    [h EXCEPT !.removeCalls = @ + 1,
              !.outstanding = @ \cup {serialNum},
              !.regOrder = Append(SelectSeq(@, LAMBDA s : s # serialNum), serialNum),
              !.lastFanOut = IF fanned THEN "remove" ELSE @,
              !.maxRemove = Max(@, serialNum),
              !.lifeMaxRemove = IF created THEN serialNum ELSE Max(@, serialNum),
              !.lastRemove = serialNum,
              !.used = @ \cup {serialNum},
              !.putSeen = FALSE,
              !.doneSeen = FALSE,
              !.distinct = @ /\ serialNum \notin h.used,
              !.inOrder = /\ @
                          /\ \A s \in h.used : s < serialNum]

\* A remove completion: in order when it matches an outstanding remove.
HistRemoveDone(h, serialNum, erased) ==
    [h EXCEPT !.removeDoneCalls = @ + 1,
              !.outstanding = @ \ {serialNum},
              !.regOrder = SelectSeq(@, LAMBDA s : s # serialNum),
              !.lifeMaxRemove = IF erased THEN 0 ELSE @,
              !.maxDone = Max(@, serialNum),
              !.doneSeen = TRUE,
              !.matched = @ /\ serialNum \in h.outstanding,
              !.inOrder = @ /\ serialNum \in h.outstanding]

Call(op, gid, lid, serialNum, listener, docTypeName, keepNames, deliveries, abort) ==
    [op |-> op, gid |-> gid, lid |-> lid, serial |-> serialNum,
     listener |-> listener, docType |-> docTypeName, keepNames |-> keepNames,
     hadEntry |-> gid \in DOMAIN pendingRemove,
     pre |-> IF gid \in DOMAIN pendingRemove THEN pendingRemove[gid] ELSE NoEntry,
     preHist |-> IF gid \in GIDs THEN hist[gid] ELSE NoHist,
     preListeners |-> listeners, preClosed |-> closed,
     prePending |-> pendingRemove, preReceived |-> received,
     fanOut |-> "none", delivered |-> deliveries, aborted |-> abort]

\* A failed assert that precedes every effect of its call: nothing but the
\* fact of the abort changes.
Abort(call) ==
    /\ aborted' = TRUE
    /\ lastCall' = call
    /\ ncalls' = ncalls + 1
    /\ UNCHANGED <<pendingRemove, listeners, closed, destroyed, received, hist>>

CanCall == ~aborted /\ ~destructed /\ ncalls < MaxCalls

\* ---------------------------------------------------------------- Init
Init ==
    /\ pendingRemove = <<>>
    /\ listeners = <<>>
    /\ closed = FALSE
    /\ destroyed = {}
    /\ aborted = FALSE
    /\ received = [l \in Handles |-> <<>>]
    /\ hist = [g \in GIDs |-> NoHist]
    /\ lastCall = [op |-> "construct", gid |-> "-", lid |-> 0, serial |-> 0,
                   listener |-> "-", docType |-> "-", keepNames |-> {},
                   hadEntry |-> FALSE, pre |-> NoEntry, preHist |-> NoHist,
                   preListeners |-> <<>>, preClosed |-> FALSE,
                   prePending |-> <<>>, preReceived |-> [l \in Handles |-> <<>>],
                   fanOut |-> "none", delivered |-> <<>>, aborted |-> FALSE]
    /\ ncalls = 0
    /\ destructed = FALSE
    /\ lock = NoThread
    /\ th = [t \in Threads |-> Idle]
    /\ running = {}

\* ---------------------------------------------------------------- actions
notifyPutDone(gid, lid, serialNum) ==
    /\ CanCall
    /\ UNCHANGED rest
    /\ LET found == HasEntry(gid)
           r == IF found THEN PutDoneOnEntry(pendingRemove[gid], serialNum)
                ELSE [abort |-> FALSE, deliver |-> TRUE, entry |-> NoEntry]
           deliveries == IF r.deliver THEN notifyPutDoneFanOut(listeners, gid, lid)
                         ELSE <<>>
       IN /\ pendingRemove' = IF found THEN MapPut(pendingRemove, gid, r.entry)
                              ELSE pendingRemove
          /\ received' = Deliver(received, deliveries, serialNum)
          /\ aborted' = r.abort
          /\ hist' = IF r.abort THEN hist
                     ELSE [hist EXCEPT ![gid] = HistPut(@, serialNum, r.deliver)]
          /\ lastCall' = [Call("notifyPutDone", gid, lid, serialNum, "-", "-", {},
                                deliveries, r.abort)
                          EXCEPT !.fanOut = IF r.deliver THEN "put" ELSE "none"]
          /\ ncalls' = ncalls + 1
          /\ UNCHANGED <<listeners, closed, destroyed>>

notifyRemove(gid, serialNum) ==
    /\ CanCall
    /\ UNCHANGED rest
    /\ LET found == HasEntry(gid)
           r == IF found THEN RemoveOnEntry(pendingRemove[gid], serialNum)
                ELSE [abort |-> FALSE, deliver |-> TRUE,
                      entry |-> PendingRemoveEntry(serialNum)]
           deliveries == IF r.deliver THEN notifyRemoveFanOut(listeners, gid)
                         ELSE <<>>
       IN /\ pendingRemove' = MapPut(pendingRemove, gid, r.entry)
          /\ received' = Deliver(received, deliveries, serialNum)
          /\ aborted' = r.abort
          /\ hist' = IF r.abort THEN hist
                     ELSE [hist EXCEPT ![gid] = HistRemove(@, serialNum, ~found, r.deliver)]
          /\ lastCall' = [Call("notifyRemove", gid, 0, serialNum, "-", "-", {},
                                deliveries, r.abort)
                          EXCEPT !.fanOut = IF r.deliver THEN "remove" ELSE "none"]
          /\ ncalls' = ncalls + 1
          /\ UNCHANGED <<listeners, closed, destroyed>>

notifyRemoveDone(gid, serialNum) ==
    /\ CanCall
    /\ UNCHANGED rest
    /\ LET found == HasEntry(gid)
           r == RemoveDoneOnEntry(found, EntryOf(gid), serialNum)
       IN /\ pendingRemove' = IF r.erase THEN MapErase(pendingRemove, gid)
                              ELSE IF found THEN MapPut(pendingRemove, gid, r.entry)
                              ELSE pendingRemove
          /\ aborted' = r.abort
          /\ hist' = IF r.abort THEN hist
                     ELSE [hist EXCEPT ![gid] = HistRemoveDone(@, serialNum, r.erase)]
          /\ lastCall' = Call("notifyRemoveDone", gid, 0, serialNum, "-", "-", {},
                              <<>>, r.abort)
          /\ ncalls' = ncalls + 1
          /\ UNCHANGED <<listeners, closed, destroyed, received>>

\* (mutation) close() without the swap: the registry keeps its listeners
close_NoSwap ==
    /\ CanCall
    /\ UNCHANGED rest
    /\ closed' = TRUE
    /\ lastCall' = Call("close", "-", 0, 0, "-", "-", {}, <<>>, FALSE)
    /\ ncalls' = ncalls + 1
    /\ UNCHANGED <<pendingRemove, listeners, destroyed, aborted, received, hist>>

\* close(): _closed = true, the registry is swapped into deferredDelete, which
\* is destroyed when the call returns.
close ==
    /\ CanCall
    /\ UNCHANGED rest
    /\ closed' = TRUE
    /\ listeners' = <<>>
    /\ destroyed' = destroyed \cup Range(listeners)
    /\ lastCall' = Call("close", "-", 0, 0, "-", "-", {}, <<>>, FALSE)
    /\ ncalls' = ncalls + 1
    /\ UNCHANGED <<pendingRemove, aborted, received, hist>>

\* addListener(listener): the caller gives up a listener it still owns.
addListener(listener) ==
    /\ CanCall
    /\ UNCHANGED rest
    /\ listener \notin Range(listeners) \cup destroyed
    /\ IF ~closed
       THEN IF HasSameKey(listeners, listener)
            THEN \* return: the handle passed in is dropped
                 /\ destroyed' = destroyed \cup {listener}
                 /\ lastCall' = Call("addListener", "-", 0, 0, listener, "-", {},
                                     <<>>, FALSE)
                 /\ ncalls' = ncalls + 1
                 /\ UNCHANGED <<pendingRemove, listeners, closed, aborted, received, hist>>
            ELSE LET cb == <<[listener |-> listener, kind |-> "registered",
                              gid |-> "-", lid |-> 0]>>
                 IN /\ listeners' = Append(listeners, listener)
                    /\ received' = Deliver(received, cb, 0)
                    /\ lastCall' = Call("addListener", "-", 0, 0, listener, "-", {},
                                        cb, FALSE)
                    /\ ncalls' = ncalls + 1
                    /\ UNCHANGED <<pendingRemove, closed, destroyed, aborted, hist>>
       ELSE IF ~(listeners = <<>>)
            THEN Abort(Call("addListener", "-", 0, 0, listener, "-", {}, <<>>, TRUE))
            ELSE /\ destroyed' = destroyed \cup {listener}
                 /\ lastCall' = Call("addListener", "-", 0, 0, listener, "-", {},
                                     <<>>, FALSE)
                 /\ ncalls' = ncalls + 1
                 /\ UNCHANGED <<pendingRemove, listeners, closed, aborted, received, hist>>

removeListeners(docTypeName, keepNames) ==
    /\ CanCall
    /\ UNCHANGED rest
    /\ IF ~closed
       THEN LET gone == {l \in Range(listeners) :
                            shouldRemoveListener(l, docTypeName, keepNames)}
            IN /\ listeners' = SelectSeqBy(listeners, Range(listeners) \ gone)
               /\ destroyed' = destroyed \cup gone
               /\ lastCall' = Call("removeListeners", "-", 0, 0, "-", docTypeName,
                                   keepNames, <<>>, FALSE)
               /\ ncalls' = ncalls + 1
               /\ UNCHANGED <<pendingRemove, closed, aborted, received, hist>>
       ELSE IF ~(listeners = <<>>)
            THEN Abort(Call("removeListeners", "-", 0, 0, "-", docTypeName, keepNames,
                            <<>>, TRUE))
            ELSE /\ lastCall' = Call("removeListeners", "-", 0, 0, "-", docTypeName,
                                     keepNames, <<>>, FALSE)
                 /\ ncalls' = ncalls + 1
                 /\ UNCHANGED <<pendingRemove, listeners, closed, destroyed, aborted,
                                received, hist>>

\* (mutation) the destructor does not check the pending-remove table
TeardownAsserts_NoPendingCheck(c, ls, pr) == c /\ ls = <<>>

\* ~GidToLidChangeHandler(): the three asserts hold.
TeardownAsserts(c, ls, pr) == c /\ ls = <<>> /\ pr = <<>>

\* ~GidToLidChangeHandler(): the handler is gone when the asserts hold.
teardown ==
    /\ CanCall
    /\ UNCHANGED tvars
    /\ IF TeardownAsserts(closed, listeners, pendingRemove)
       THEN /\ destructed' = TRUE
            /\ lastCall' = Call("teardown", "-", 0, 0, "-", "-", {}, <<>>, FALSE)
            /\ ncalls' = ncalls + 1
            /\ UNCHANGED <<pendingRemove, listeners, closed, destroyed, aborted,
                           received, hist>>
       ELSE /\ Abort(Call("teardown", "-", 0, 0, "-", "-", {}, <<>>, TRUE))
            /\ UNCHANGED destructed

Next ==
    \/ \E gid \in GIDs, lid \in LIDs, serialNum \in Serials :
          notifyPutDone(gid, lid, serialNum)
    \/ \E gid \in GIDs, serialNum \in Serials : notifyRemove(gid, serialNum)
    \/ \E gid \in GIDs, serialNum \in Serials : notifyRemoveDone(gid, serialNum)
    \/ close
    \/ \E listener \in Handles : addListener(listener)
    \/ \E docTypeName \in DocTypes, keepNames \in KeepSets :
          removeListeners(docTypeName, keepNames)
    \/ teardown

Spec == Init /\ [][Next]_vars

\* ===================================================== calling threads
\* The same handler called from several threads. A call takes _lock, runs its
\* body, makes its listener callbacks one by one while it holds the lock,
\* releases the lock, and then destroys what it moved out of the registry.
\* Here hist, lastCall and destructed are not kept.
OtherThreadState == <<hist, lastCall, destructed>>

\* The GIDs the threads' calls are about.
ThreadGIDs == {"g1"}

\* A thread may enter a call.
CanEnter(t) == ~aborted /\ ncalls < MaxCalls /\ th[t].pc = "idle"

\* The handles some call still holds: moved out and not yet destroyed.
Deferred == UNION {Range(th[t].deferred) : t \in Threads}

\* A handle a caller can still pass to addListener.
Owned(listener) == listener \notin Range(listeners) \cup destroyed \cup Deferred

\* (mutation) the lock is taken although another thread holds it
Acquire_NotExclusive(t) == lock' = t

\* lock_guard guard(_lock): blocks until no thread holds the lock.
Acquire(t) == lock = NoThread /\ lock' = t

\* The thread's position once the body of its call has run under the lock.
Locked(op, serialNum, deliveries, handles, wasClosed) ==
    [pc |-> "locked", op |-> op, serial |-> serialNum, todo |-> deliveries,
     write |-> <<>>, deferred |-> handles, enteredClosed |-> wasClosed]

T_notifyPutDone(t, gid, lid, serialNum) ==
    /\ CanEnter(t)
    /\ Acquire(t)
    /\ LET found == HasEntry(gid)
           r == IF found THEN PutDoneOnEntry(pendingRemove[gid], serialNum)
                ELSE [abort |-> FALSE, deliver |-> TRUE, entry |-> NoEntry]
           deliveries == IF r.deliver THEN notifyPutDoneFanOut(listeners, gid, lid)
                         ELSE <<>>
       IN /\ pendingRemove' = IF found THEN MapPut(pendingRemove, gid, r.entry)
                              ELSE pendingRemove
          /\ aborted' = r.abort
          /\ th' = [th EXCEPT ![t] = Locked("notifyPutDone", serialNum, deliveries,
                                            <<>>, closed)]
    /\ ncalls' = ncalls + 1
    /\ UNCHANGED <<listeners, closed, destroyed, received, running>>
    /\ UNCHANGED OtherThreadState

\* notifyRemove(gid, serialNum): a new entry is inserted before the fan-out;
\* on an existing entry whose put is the later one the fan-out comes first
\* and removeSerialNum and refCount are written when it has returned.
T_notifyRemove(t, gid, serialNum) ==
    /\ CanEnter(t)
    /\ Acquire(t)
    /\ LET found == HasEntry(gid)
           r == IF found THEN RemoveOnEntry(pendingRemove[gid], serialNum)
                ELSE [abort |-> FALSE, deliver |-> TRUE,
                      entry |-> PendingRemoveEntry(serialNum)]
           deliveries == IF r.deliver THEN notifyRemoveFanOut(listeners, gid)
                         ELSE <<>>
           later == found /\ r.deliver /\ ~r.abort
       IN /\ pendingRemove' = IF later THEN pendingRemove
                              ELSE MapPut(pendingRemove, gid, r.entry)
          /\ aborted' = r.abort
          /\ th' = [th EXCEPT ![t] =
                       [Locked("notifyRemove", serialNum, deliveries, <<>>, closed)
                        EXCEPT !.write = IF later
                                         THEN <<[gid |-> gid, entry |-> r.entry]>>
                                         ELSE <<>>]]
    /\ ncalls' = ncalls + 1
    /\ UNCHANGED <<listeners, closed, destroyed, received, running>>
    /\ UNCHANGED OtherThreadState

T_notifyRemoveDone(t, gid, serialNum) ==
    /\ CanEnter(t)
    /\ Acquire(t)
    /\ LET found == HasEntry(gid)
           r == RemoveDoneOnEntry(found, EntryOf(gid), serialNum)
       IN /\ pendingRemove' = IF r.erase THEN MapErase(pendingRemove, gid)
                              ELSE IF found THEN MapPut(pendingRemove, gid, r.entry)
                              ELSE pendingRemove
          /\ aborted' = r.abort
          /\ th' = [th EXCEPT ![t] = Locked("notifyRemoveDone", serialNum, <<>>,
                                            <<>>, closed)]
    /\ ncalls' = ncalls + 1
    /\ UNCHANGED <<listeners, closed, destroyed, received, running>>
    /\ UNCHANGED OtherThreadState

\* (mutation) close() destroys the listeners while it still holds the lock
T_close_DestroyLocked(t) ==
    /\ CanEnter(t)
    /\ Acquire(t)
    /\ closed' = TRUE
    /\ listeners' = <<>>
    /\ destroyed' = destroyed \cup Range(listeners)
    /\ th' = [th EXCEPT ![t] = Locked("close", 0, <<>>, listeners, closed)]
    /\ ncalls' = ncalls + 1
    /\ UNCHANGED <<pendingRemove, aborted, received, running>>
    /\ UNCHANGED OtherThreadState

\* close(): under the lock _closed = true and the registry is swapped into
\* deferredDelete, a local declared outside the scope of the lock.
T_close(t) ==
    /\ CanEnter(t)
    /\ Acquire(t)
    /\ closed' = TRUE
    /\ listeners' = <<>>
    /\ th' = [th EXCEPT ![t] = Locked("close", 0, <<>>, listeners, closed)]
    /\ ncalls' = ncalls + 1
    /\ UNCHANGED <<pendingRemove, destroyed, aborted, received, running>>
    /\ UNCHANGED OtherThreadState

\* (mutation) an accepted listener is not told that it is registered
T_addListener_NoCallback(t, listener) ==
    /\ CanEnter(t)
    /\ Owned(listener)
    /\ Acquire(t)
    /\ listeners' = IF ~closed /\ ~HasSameKey(listeners, listener)
                    THEN Append(listeners, listener) ELSE listeners
    /\ th' = [th EXCEPT ![t] = Locked("addListener", 0, <<>>,
                  IF ~closed /\ ~HasSameKey(listeners, listener) THEN <<>>
                  ELSE <<listener>>, closed)]
    /\ ncalls' = ncalls + 1
    /\ UNCHANGED <<pendingRemove, closed, destroyed, aborted, received, running>>
    /\ UNCHANGED OtherThreadState

\* addListener(listener): the whole body runs under the lock; the handle
\* passed by value is destroyed, if it was not moved into the registry, when
\* the call returns, after the guard has released the lock.
T_addListener(t, listener) ==
    /\ CanEnter(t)
    /\ Owned(listener)
    /\ Acquire(t)
    /\ IF ~closed
       THEN IF HasSameKey(listeners, listener)
            THEN /\ th' = [th EXCEPT ![t] = Locked("addListener", 0, <<>>,
                                                   <<listener>>, closed)]
                 /\ UNCHANGED <<listeners, aborted>>
            ELSE /\ listeners' = Append(listeners, listener)
                 /\ th' = [th EXCEPT ![t] = Locked("addListener", 0,
                              <<[listener |-> listener, kind |-> "registered",
                                 gid |-> "-", lid |-> 0]>>, <<>>, closed)]
                 /\ UNCHANGED aborted
       ELSE /\ aborted' = ~(listeners = <<>>)
            /\ th' = [th EXCEPT ![t] = Locked("addListener", 0, <<>>,
                                              <<listener>>, closed)]
            /\ UNCHANGED listeners
    /\ ncalls' = ncalls + 1
    /\ UNCHANGED <<pendingRemove, closed, destroyed, received, running>>
    /\ UNCHANGED OtherThreadState

\* removeListeners(docTypeName, keepNames): the matching listeners are moved
\* into deferredDelete, a local declared outside the scope of the lock.
T_removeListeners(t, docTypeName, keepNames) ==
    /\ CanEnter(t)
    /\ Acquire(t)
    /\ IF ~closed
       THEN LET gone == {l \in Range(listeners) :
                            shouldRemoveListener(l, docTypeName, keepNames)}
            IN /\ listeners' = SelectSeqBy(listeners, Range(listeners) \ gone)
               /\ th' = [th EXCEPT ![t] = Locked("removeListeners", 0, <<>>,
                                                 SelectSeqBy(listeners, gone), closed)]
               /\ UNCHANGED aborted
       ELSE /\ aborted' = ~(listeners = <<>>)
            /\ th' = [th EXCEPT ![t] = Locked("removeListeners", 0, <<>>, <<>>,
                                              closed)]
            /\ UNCHANGED listeners
    /\ ncalls' = ncalls + 1
    /\ UNCHANGED <<pendingRemove, closed, destroyed, received, running>>
    /\ UNCHANGED OtherThreadState

\* The next listener callback of the call is entered.
T_BeginCallback(t) ==
    /\ ~aborted
    /\ th[t].pc = "locked"
    /\ th[t].todo # <<>>
    /\ th' = [th EXCEPT ![t].pc = "callback"]
    /\ running' = running \cup {[thread |-> t, cb |-> Head(th[t].todo)]}
    /\ UNCHANGED <<pendingRemove, listeners, closed, destroyed, aborted, received,
                   ncalls, lock>>
    /\ UNCHANGED OtherThreadState

\* The callback returns: the listener has received the notification.
T_EndCallback(t) ==
    /\ ~aborted
    /\ th[t].pc = "callback"
    /\ received' = Deliver(received, <<Head(th[t].todo)>>, th[t].serial)
    /\ th' = [th EXCEPT ![t].pc = "locked", ![t].todo = Tail(@)]
    /\ running' = running \ {[thread |-> t, cb |-> Head(th[t].todo)]}
    /\ UNCHANGED <<pendingRemove, listeners, closed, destroyed, aborted, ncalls, lock>>
    /\ UNCHANGED OtherThreadState

\* notifyRemove on an existing entry, after its fan-out has returned:
\* entry.removeSerialNum = serialNum and ++entry.refCount.
T_WriteEntry(t) ==
    /\ ~aborted
    /\ th[t].pc = "locked"
    /\ th[t].todo = <<>>
    /\ th[t].write # <<>>
    /\ pendingRemove' = MapPut(pendingRemove, th[t].write[1].gid, th[t].write[1].entry)
    /\ th' = [th EXCEPT ![t].write = <<>>]
    /\ UNCHANGED <<listeners, closed, destroyed, aborted, received, ncalls, lock,
                   running>>
    /\ UNCHANGED OtherThreadState

\* The guard goes out of scope: the lock is released. What the call has
\* moved out is still to be destroyed.
T_Unlock(t) ==
    /\ ~aborted
    /\ th[t].pc = "locked"
    /\ th[t].todo = <<>>
    /\ th[t].write = <<>>
    /\ lock' = NoThread
    /\ th' = [th EXCEPT ![t] = IF th[t].deferred = <<>> THEN Idle
                               ELSE [@ EXCEPT !.pc = "unlocked"]]
    /\ UNCHANGED <<pendingRemove, listeners, closed, destroyed, aborted, received,
                   ncalls, running>>
    /\ UNCHANGED OtherThreadState

\* The call returns: the next handle of deferredDelete (or the handle passed
\* in) is destroyed, with no lock held. The vector destroys its elements one
\* after another, first to last; the call is over after the last one.
T_DestroyDeferred(t) ==
    /\ ~aborted
    /\ th[t].pc = "unlocked"
    /\ destroyed' = destroyed \cup {Head(th[t].deferred)}
    /\ th' = [th EXCEPT ![t] = IF Tail(th[t].deferred) = <<>> THEN Idle
                               ELSE [@ EXCEPT !.deferred = Tail(@)]]
    /\ UNCHANGED <<pendingRemove, listeners, closed, aborted, received, ncalls,
                   lock, running>>
    /\ UNCHANGED OtherThreadState

NextThreads ==
    \/ \E t \in Threads, gid \in ThreadGIDs, lid \in LIDs, serialNum \in Serials :
          T_notifyPutDone(t, gid, lid, serialNum)
    \/ \E t \in Threads, gid \in ThreadGIDs, serialNum \in Serials :
          T_notifyRemove(t, gid, serialNum)
    \/ \E t \in Threads, gid \in ThreadGIDs, serialNum \in Serials :
          T_notifyRemoveDone(t, gid, serialNum)
    \/ \E t \in Threads : T_close(t)
    \/ \E t \in Threads, listener \in Handles : T_addListener(t, listener)
    \/ \E t \in Threads, docTypeName \in DocTypes, keepNames \in KeepSets :
          T_removeListeners(t, docTypeName, keepNames)
    \/ \E t \in Threads : T_BeginCallback(t)
    \/ \E t \in Threads : T_EndCallback(t)
    \/ \E t \in Threads : T_WriteEntry(t)
    \/ \E t \in Threads : T_Unlock(t)
    \/ \E t \in Threads : T_DestroyDeferred(t)

SpecThreads == Init /\ [][NextThreads]_vars

\* ================================================================ claims
\* The put / remove notifications listener l has received for GID g.
NotificationsFor(l, g) ==
    SelectSeq(received[l], LAMBDA n : n.gid = g /\ n.kind \in {"put", "remove"})

\* Listener l has received its notifications for g in strictly increasing
\* serial-number order.
InSerialOrder(l, g) ==
    \A i, j \in 1 .. Len(NotificationsFor(l, g)) :
        i < j => NotificationsFor(l, g)[i].serial < NotificationsFor(l, g)[j].serial

\* The last call delivered exactly one callback of `kind` for (gid, lid) to
\* every listener registered when it was made, and nothing else.
DeliveredOnceToAll(kind, gid, lid) ==
    /\ Len(lastCall.delivered) = Len(lastCall.preListeners)
    /\ \A l \in Range(lastCall.preListeners) :
          Cardinality({i \in 1 .. Len(lastCall.delivered) :
                          lastCall.delivered[i].listener = l}) = 1
    /\ \A i \in 1 .. Len(lastCall.delivered) :
          /\ lastCall.delivered[i].listener \in Range(lastCall.preListeners)
          /\ lastCall.delivered[i].kind = kind
          /\ lastCall.delivered[i].gid = gid
          /\ lastCall.delivered[i].lid = lid

\* C1 (as claimed): for one GID, whenever no two operations on it have
\* shared a serial number and every notifyRemoveDone matched an outstanding
\* notifyRemove, each listener has received the GID's put and remove
\* notifications in strictly increasing serial-number order.
C1_OrderUnderStatedContract ==
    \A l \in Handles, g \in GIDs :
        (hist[g].distinct /\ hist[g].matched) => InSerialOrder(l, g)

\* C1 (amended): for one GID, when in addition removes are registered in
\* increasing serial-number order above every serial number already used on
\* the GID, and every put completes in serial-number order among the puts
\* and before the notifyRemoveDone of any remove with a higher serial number
\* (so the one reordering left is a put completing after removes with higher
\* serial numbers were registered), each listener has received the GID's put
\* and remove notifications in strictly increasing serial-number order.
C1_OrderUnderCompletionContract ==
    \A l \in Handles, g \in GIDs : hist[g].inOrder => InSerialOrder(l, g)

\* C1 witness: a put completing after a remove with a higher serial number
\* was registered has just been suppressed, the calls on the GID were in
\* order, and a listener holds two notifications for the GID.
C1_Witness ==
    \E l \in Handles :
        /\ lastCall.op = "notifyPutDone" /\ ~lastCall.aborted
        /\ lastCall.hadEntry /\ lastCall.pre.removeSerialNum > lastCall.serial
        /\ hist[lastCall.gid].inOrder
        /\ Len(NotificationsFor(l, lastCall.gid)) >= 2

\* C2: notifyPutDone(g, lid, s2) while an entry for g has removeSerialNum
\* s1 > s2 returns having delivered nothing and leaves the entry as it was.
C2_StalePutSuppressed ==
    (/\ lastCall.op = "notifyPutDone"
     /\ lastCall.hadEntry
     /\ lastCall.serial < lastCall.pre.removeSerialNum)
    => /\ ~lastCall.aborted
       /\ lastCall.delivered = <<>>
       /\ HasEntry(lastCall.gid)
       /\ pendingRemove[lastCall.gid] = lastCall.pre

\* C2 witness: such a stale put has been made with a listener registered.
C2_Witness ==
    /\ lastCall.op = "notifyPutDone"
    /\ lastCall.hadEntry
    /\ lastCall.serial < lastCall.pre.removeSerialNum
    /\ lastCall.preListeners # <<>>

\* C3: notifyPutDone(g, lid, s2) while an entry for g exists with
\* removeSerialNum < s2 and putSerialNum < s2 delivers exactly one put
\* (g, lid) to every registered listener and sets putSerialNum to s2,
\* removeSerialNum and refCount staying as they were.
C3_LaterPutDelivered ==
    (/\ lastCall.op = "notifyPutDone"
     /\ lastCall.hadEntry
     /\ lastCall.serial > lastCall.pre.removeSerialNum
     /\ lastCall.serial > lastCall.pre.putSerialNum)
    => /\ ~lastCall.aborted
       /\ DeliveredOnceToAll("put", lastCall.gid, lastCall.lid)
       /\ HasEntry(lastCall.gid)
       /\ pendingRemove[lastCall.gid] =
              [removeSerialNum |-> lastCall.pre.removeSerialNum,
               putSerialNum |-> lastCall.serial,
               refCount |-> lastCall.pre.refCount]

\* C3 witness: such a put has been made with two listeners registered.
C3_Witness ==
    /\ lastCall.op = "notifyPutDone"
    /\ lastCall.hadEntry
    /\ lastCall.serial > lastCall.pre.removeSerialNum
    /\ lastCall.serial > lastCall.pre.putSerialNum
    /\ Len(lastCall.preListeners) = 2

\* The last call is a notifyRemove(g, s2) that follows a notifyRemove(g, s1),
\* s1 < s2, with no notifyRemoveDone(g, .) between the two.
SecondRemove ==
    /\ lastCall.op = "notifyRemove"
    /\ lastCall.preHist.lastRemove > 0
    /\ lastCall.preHist.lastRemove < lastCall.serial
    /\ ~lastCall.preHist.doneSeen

\* C4: a notifyRemove(g, s2) following notifyRemove(g, s1), s1 < s2, with no
\* notifyRemoveDone(g, .) between them delivers a remove notification only
\* if a notifyPutDone for g was made between the two removes.
C4_SecondRemoveNeedsPut ==
    SecondRemove => (lastCall.delivered # <<>> => lastCall.preHist.putSeen)

\* C4 witness: a second remove that did deliver, after a put between the two.
C4_Witness ==
    /\ SecondRemove
    /\ lastCall.preHist.putSeen
    /\ lastCall.delivered # <<>>

\* C5: an entry exists for g iff more notifyRemove(g, .) than
\* notifyRemoveDone(g, .) calls have been made, and its refCount is the
\* difference of the two counts.
C5_RefCountIsOutstandingRemoves ==
    \A g \in GIDs :
        /\ HasEntry(g) <=> hist[g].removeCalls > hist[g].removeDoneCalls
        /\ HasEntry(g) =>
              pendingRemove[g].refCount = hist[g].removeCalls - hist[g].removeDoneCalls

\* C5 witness: two removes on one GID with no removeDone: its refCount is 2.
C5_Witness ==
    \E g \in GIDs :
        /\ HasEntry(g)
        /\ pendingRemove[g].refCount = 2
        /\ hist[g].removeCalls = 2

\* C6: a notifyRemoveDone(g, s) that returns from an entry whose refCount
\* is 1 has erased the entry; a notifyRemoveDone for g made while no entry is
\* present fails its assert.
C6_LastRemoveDoneErases ==
    lastCall.op = "notifyRemoveDone" =>
        /\ (~lastCall.aborted /\ lastCall.pre.refCount = 1) => ~HasEntry(lastCall.gid)
        /\ ~lastCall.hadEntry => lastCall.aborted

\* C6 witness: the entry of g was erased by a notifyRemoveDone and a further
\* notifyRemoveDone for g has aborted.
C6_Witness ==
    /\ lastCall.op = "notifyRemoveDone"
    /\ lastCall.aborted
    /\ ~lastCall.hadEntry
    /\ lastCall.preHist.removeDoneCalls >= 1
    /\ lastCall.preHist.removeCalls = lastCall.preHist.removeDoneCalls

\* C7 (as claimed): notifyRemoveDone(g, s) aborts unless notifyRemove(g, s)
\* was registered with the same serial number and is not yet completed.
C7_AbortsUnlessRegistered ==
    (/\ lastCall.op = "notifyRemoveDone"
     /\ lastCall.serial \notin lastCall.preHist.outstanding)
    => lastCall.aborted

\* C7 (amended): notifyRemoveDone(g, s) aborts exactly when no entry exists
\* for g or s is above the entry's removeSerialNum.
C7_AbortsIffNoEntryOrSerialAhead ==
    lastCall.op = "notifyRemoveDone" =>
        (lastCall.aborted <=>
            (~lastCall.hadEntry \/ lastCall.serial > lastCall.pre.removeSerialNum))

\* C7 witness: a notifyRemoveDone whose serial number was never registered
\* has returned and erased the entry.
C7_Witness ==
    /\ lastCall.op = "notifyRemoveDone"
    /\ ~lastCall.aborted
    /\ lastCall.serial \notin lastCall.preHist.outstanding
    /\ ~HasEntry(lastCall.gid)

\* C8: putSerialNum and removeSerialNum of an existing entry are never equal
\* (serial numbers are at least 1, above the unset putSerialNum).
C8_PutAndRemoveSerialDiffer ==
    \A g \in GIDs :
        HasEntry(g) => pendingRemove[g].putSerialNum # pendingRemove[g].removeSerialNum

\* C8 witness: an entry holding a recorded put below its remove.
C8_Witness ==
    \E g \in GIDs :
        /\ HasEntry(g)
        /\ pendingRemove[g].putSerialNum > 0
        /\ pendingRemove[g].putSerialNum < pendingRemove[g].removeSerialNum

\* C9 (as claimed): removeSerialNum of an existing entry is the highest
\* serial number passed to any notifyRemove(g, .) so far.
C9_HighestRemoveEver ==
    \A g \in GIDs : HasEntry(g) => pendingRemove[g].removeSerialNum = hist[g].maxRemove

\* C9 (amended): removeSerialNum of an existing entry is the highest serial
\* number passed to a notifyRemove(g, .) since that entry was created.
C9_HighestRemoveSinceCreation ==
    \A g \in GIDs :
        HasEntry(g) => pendingRemove[g].removeSerialNum = hist[g].lifeMaxRemove

\* C9 witness: an entry created after an earlier one was erased, with two
\* removes registered on it, below the earlier entry's remove.
C9_Witness ==
    \E g \in GIDs :
        /\ HasEntry(g)
        /\ pendingRemove[g].refCount = 2
        /\ hist[g].lifeMaxRemove < hist[g].maxRemove

\* C10: once closed, the registry is empty and stays empty, and no call
\* delivers a callback to any listener.
C10_ClosedStaysEmptyAndSilent ==
    /\ [](closed => listeners = <<>>)
    /\ [][closed => (closed' /\ listeners' = <<>> /\ received' = received)]_vars

\* C10 witness: a listener that had received callbacks was registered at
\* close(), and a notifyPutDone has been made after the close.
C10_Witness ==
    /\ closed
    /\ lastCall.op = "notifyPutDone"
    /\ lastCall.preClosed
    /\ \E l \in destroyed : Len(received[l]) >= 2

\* Listeners a and b carry the same (document-type name, name).
SameKey(a, b) == getDocTypeName(a) = getDocTypeName(b) /\ getName(a) = getName(b)

\* The last call is an addListener on an open handler whose key is taken.
DuplicateAdd ==
    /\ lastCall.op = "addListener"
    /\ ~lastCall.preClosed
    /\ \E i \in 1 .. Len(lastCall.preListeners) :
          SameKey(lastCall.preListeners[i], lastCall.listener)

\* C11: the registry never holds two listeners with the same (document-type
\* name, name); addListener with a key already present leaves the registry
\* as it was, with one listener of that key, drops the new handle and
\* invokes no callback.
C11_NoDuplicateKeys ==
    /\ \A i, j \in 1 .. Len(listeners) :
          i # j => ~SameKey(listeners[i], listeners[j])
    /\ DuplicateAdd =>
          /\ listeners = lastCall.preListeners
          /\ Cardinality({i \in 1 .. Len(listeners) :
                             SameKey(listeners[i], lastCall.listener)}) = 1
          /\ lastCall.listener \in destroyed
          /\ lastCall.delivered = <<>>
          /\ received = lastCall.preReceived

\* C11 witness: addListener has been called with a key already registered,
\* next to a listener of another key.
C11_Witness ==
    /\ DuplicateAdd
    /\ Len(listeners) = 2

\* The last call is a removeListeners on an open handler.
OpenRemoveListeners == lastCall.op = "removeListeners" /\ ~lastCall.preClosed

\* C12: removeListeners(docType, keepNames) on an open handler leaves in
\* the registry, in their order, exactly the listeners of another document
\* type or with a name in keepNames, and leaves the pending-remove table alone.
C12_RemoveListenersExact ==
    OpenRemoveListeners =>
        /\ listeners =
              SelectSeq(lastCall.preListeners,
                        LAMBDA l : \/ getDocTypeName(l) # lastCall.docType
                                   \/ getName(l) \in lastCall.keepNames)
        /\ destroyed \cap Range(listeners) = {}
        /\ Range(lastCall.preListeners) \ Range(listeners) \subseteq destroyed
        /\ pendingRemove = lastCall.prePending

\* C12 witness: of three listeners the one of the document type whose name
\* is not kept has been removed.
C12_Witness ==
    /\ OpenRemoveListeners
    /\ Len(lastCall.preListeners) = 3
    /\ Len(listeners) = 2
    /\ lastCall.keepNames # {}

\* C14: teardown succeeds exactly when closed is true and the registry and
\* the pending-remove table are empty, and is a failed assert otherwise;
\* close() leaves the pending-remove table as it was.
C14_TeardownNeedsDrainedState ==
    /\ lastCall.op = "teardown" =>
          /\ lastCall.aborted <=>
                ~(/\ lastCall.preClosed
                  /\ lastCall.preListeners = <<>>
                  /\ lastCall.prePending = <<>>)
          /\ destructed <=> ~lastCall.aborted
    /\ lastCall.op = "close" => pendingRemove = lastCall.prePending
    /\ destructed => (closed /\ listeners = <<>> /\ pendingRemove = <<>>)

\* C14 witness: teardown of a closed handler with a remove not marked done
\* has failed its assert.
C14_Witness ==
    /\ lastCall.op = "teardown"
    /\ lastCall.aborted
    /\ lastCall.preClosed
    /\ lastCall.prePending # <<>>

\* C15: notifyPutDone(g, lid, s) with no entry for g delivers exactly one
\* put (g, lid) to every registered listener, whatever s, and creates no
\* entry.
C15_PutWithoutEntryDelivered ==
    (lastCall.op = "notifyPutDone" /\ ~lastCall.hadEntry) =>
        /\ ~lastCall.aborted
        /\ DeliveredOnceToAll("put", lastCall.gid, lastCall.lid)
        /\ pendingRemove = lastCall.prePending
        /\ ~HasEntry(lastCall.gid)

\* C15 witness: such a put has reached two listeners, with a serial number
\* below that of an earlier put on the GID.
C15_Witness ==
    /\ lastCall.op = "notifyPutDone"
    /\ ~lastCall.hadEntry
    /\ Len(lastCall.delivered) = 2
    /\ lastCall.serial < lastCall.preHist.maxPut

\* C16 (as claimed): removeSerialNum of an existing entry is the serial
\* number of the most recently registered remove that is still outstanding.
C16_LatestOutstandingRemove ==
    \A g \in GIDs :
        HasEntry(g) =>
            /\ hist[g].regOrder # <<>>
            /\ pendingRemove[g].removeSerialNum = hist[g].regOrder[Len(hist[g].regOrder)]

\* C16 (amended): removeSerialNum of an existing entry is the serial number
\* of the most recently registered remove for g, still outstanding or not.
C16_LatestRegisteredRemove ==
    \A g \in GIDs :
        HasEntry(g) => pendingRemove[g].removeSerialNum = hist[g].lastRemove

\* C16 witness: two removes were registered, the later one is marked done,
\* the earlier one is outstanding and the entry carries the later serial.
C16_Witness ==
    \E g \in GIDs :
        /\ HasEntry(g)
        /\ hist[g].matched
        /\ hist[g].outstanding # {}
        /\ pendingRemove[g].removeSerialNum \notin hist[g].outstanding

\* C17: while an entry exists for g, the handler's last fan-out for g was a
\* remove iff removeSerialNum > putSerialNum and a put iff removeSerialNum <
\* putSerialNum; a notifyRemove on an existing entry fans out a remove only
\* when the last fan-out for g was a put.
C17_SerialOrderTracksLastFanOut ==
    /\ \A g \in GIDs :
          HasEntry(g) =>
              /\ hist[g].lastFanOut = "remove" <=>
                    pendingRemove[g].removeSerialNum > pendingRemove[g].putSerialNum
              /\ hist[g].lastFanOut = "put" <=>
                    pendingRemove[g].removeSerialNum < pendingRemove[g].putSerialNum
    /\ (lastCall.op = "notifyRemove" /\ lastCall.hadEntry /\ lastCall.fanOut = "remove")
          => lastCall.preHist.lastFanOut = "put"

\* C17 witness: a notifyRemove on an existing entry has delivered a remove
\* to a listener after a put.
C17_Witness ==
    /\ lastCall.op = "notifyRemove"
    /\ lastCall.hadEntry
    /\ lastCall.fanOut = "remove"
    /\ lastCall.delivered # <<>>
    /\ HasEntry(lastCall.gid)
    /\ hist[lastCall.gid].lastFanOut = "remove"

\* The last call is one of the three serial-number operations.
SerialCall == lastCall.op \in {"notifyPutDone", "notifyRemove", "notifyRemoveDone"}

\* What a notifyPutDone that returns has done.
PutDoneEffect ==
    IF ~lastCall.hadEntry
    THEN /\ pendingRemove = lastCall.prePending
         /\ DeliveredOnceToAll("put", lastCall.gid, lastCall.lid)
    ELSE IF lastCall.serial < lastCall.pre.removeSerialNum
    THEN /\ pendingRemove = lastCall.prePending
         /\ lastCall.delivered = <<>>
    ELSE /\ pendingRemove =
               [lastCall.prePending EXCEPT ![lastCall.gid].putSerialNum = lastCall.serial]
         /\ DeliveredOnceToAll("put", lastCall.gid, lastCall.lid)

\* What a notifyRemove that returns has done.
RemoveEffect ==
    IF ~lastCall.hadEntry
    THEN /\ DOMAIN pendingRemove = DOMAIN lastCall.prePending \cup {lastCall.gid}
         /\ \A g \in DOMAIN lastCall.prePending : pendingRemove[g] = lastCall.prePending[g]
         /\ pendingRemove[lastCall.gid] =
               [removeSerialNum |-> lastCall.serial, putSerialNum |-> 0, refCount |-> 1]
         /\ DeliveredOnceToAll("remove", lastCall.gid, 0)
    ELSE /\ pendingRemove =
               [lastCall.prePending EXCEPT
                   ![lastCall.gid].removeSerialNum = lastCall.serial,
                   ![lastCall.gid].refCount = lastCall.pre.refCount + 1]
         /\ IF lastCall.pre.removeSerialNum < lastCall.pre.putSerialNum
            THEN DeliveredOnceToAll("remove", lastCall.gid, 0)
            ELSE lastCall.delivered = <<>>

\* What a notifyRemoveDone that returns has done.
RemoveDoneEffect ==
    /\ lastCall.delivered = <<>>
    /\ IF lastCall.pre.refCount = 1
       THEN /\ DOMAIN pendingRemove = DOMAIN lastCall.prePending \ {lastCall.gid}
            /\ \A g \in DOMAIN pendingRemove : pendingRemove[g] = lastCall.prePending[g]
       ELSE pendingRemove =
               [lastCall.prePending EXCEPT
                   ![lastCall.gid].refCount = lastCall.pre.refCount - 1]

\* C18: a notifyPutDone, notifyRemove or notifyRemoveDone that aborts has
\* delivered no notification and changed no entry; one that returns has
\* done its whole effect, on the entry and on every listener.
C18_AbortBeforeAnyEffect ==
    SerialCall =>
        IF lastCall.aborted
        THEN /\ lastCall.delivered = <<>>
             /\ received = lastCall.preReceived
             /\ pendingRemove = lastCall.prePending
             /\ listeners = lastCall.preListeners
        ELSE /\ lastCall.op = "notifyPutDone" => PutDoneEffect
             /\ lastCall.op = "notifyRemove" => RemoveEffect
             /\ lastCall.op = "notifyRemoveDone" => RemoveDoneEffect
             /\ \A l \in Handles :
                   Len(received[l]) = Len(lastCall.preReceived[l])
                      + Cardinality({i \in 1 .. Len(lastCall.delivered) :
                                        lastCall.delivered[i].listener = l})

\* C18 witness: a notifyRemove whose serial number is not above the
\* recorded put has aborted, with a listener registered that had last
\* been told of the put.
C18_Witness ==
    /\ lastCall.op = "notifyRemove"
    /\ lastCall.aborted
    /\ lastCall.pre.removeSerialNum < lastCall.pre.putSerialNum
    /\ lastCall.preListeners # <<>>

\* ---------------------------------------------------------------- C13
\* C13: with the handler called from several threads, at most one listener
\* callback (registered, put or remove) is executing at any time, and the
\* thread executing it holds the handler's lock.
C13_OneCallbackUnderLock ==
    /\ Cardinality(running) <= 1
    /\ \A r \in running : lock = r.thread /\ th[r.thread].pc = "callback"

\* C13 witness: a callback is executing on one thread while another thread
\* is inside a call of its own, past its critical section.
C13_Witness ==
    \E r \in running : \E u \in Threads \ {r.thread} : th[u].pc = "unlocked"

\* ---------------------------------------------------------------- C19
\* The callbacks a thread's call has entered or has still to make.
CallbacksOf(t) == {th[t].todo[i] : i \in 1 .. Len(th[t].todo)}

\* C19: the listeners close() and removeListeners() have taken out of the
\* registry are not destroyed while that call holds the lock, and no callback
\* is made, or still to be made, on a listener that is no longer in the
\* registry.
C19_DestroyedAfterUnlockAndSilent ==
    /\ \A t \in Threads :
          (th[t].op \in {"close", "removeListeners"} /\ (lock = t \/ th[t].pc = "locked"))
             => Range(th[t].deferred) \cap destroyed = {}
    /\ \A t \in Threads : \A cb \in CallbacksOf(t) :
          /\ cb.listener \in Range(listeners)
          /\ cb.listener \notin destroyed \cup Deferred

\* C19 witness: removeListeners() has released the lock and still owns the
\* listener it took out, while another thread, holding the lock, is making a
\* callback on a listener that stayed.
C19_Witness ==
    \E t \in Threads :
       /\ th[t].op = "removeListeners"
       /\ th[t].pc = "unlocked"
       /\ th[t].deferred # <<>>
       /\ \E r \in running : r.thread # t /\ lock = r.thread /\ r.cb.kind = "put"

\* ---------------------------------------------------------------- C20
\* A registration callback for listener l is entered or still to be made.
PendingRegistration(l) ==
    \E t \in Threads : \E cb \in CallbacksOf(t) :
       cb.kind = "registered" /\ cb.listener = l

\* C20: a listener in the registry has had its registration callback, or the
\* addListener call that accepted it is about to make it or is making it; the
\* registration callback is the first callback a listener has received and it
\* receives no second one; a put or remove callback is entered only on a
\* listener whose registration callback has returned; addListener on a closed
\* handler makes no callback and the registry is empty.
C20_RegisteredOnceAndFirst ==
    /\ \A l \in Handles :
          /\ \A i \in 1 .. Len(received[l]) :
                (received[l][i].kind = "registered") <=> (i = 1)
          /\ l \in Range(listeners) => ((received[l] # <<>>) # PendingRegistration(l))
          /\ l \notin Range(listeners) => ~PendingRegistration(l)
    /\ \A r \in running :
          r.cb.kind # "registered" => received[r.cb.listener] # <<>>
    /\ \A t \in Threads :
          (th[t].op = "addListener" /\ th[t].enteredClosed)
             => /\ th[t].todo = <<>>
                /\ listeners = <<>>
                /\ \A r \in running : r.thread # t

\* C20 witness: a listener has received its registration callback and then a
\* put, the handler has been closed, and an addListener call has found it
\* closed.
C20_Witness ==
    /\ \E l \in Handles :
          /\ Len(received[l]) >= 2
          /\ received[l][1].kind = "registered"
          /\ received[l][2].kind = "put"
    /\ \E t \in Threads : th[t].op = "addListener" /\ th[t].enteredClosed

====
